---- MODULE Spec2Model ----
(***************************************************************************)
(* Model of scripts/google_news_scraper.py: the feed resolver              *)
(* (get_rss_feed_url), the feed normalizer (parse_rss_feed), the           *)
(* persistence step (save_news_data, update_readme) and the driver         *)
(* (__main__).                                                             *)
(*                                                                         *)
(* Text is a sequence of tokens.  A token is a block of characters that    *)
(* the code never splits: a quote character, the literal URL prefix the    *)
(* fallback pattern starts with, or a run of other characters.             *)
(***************************************************************************)
EXTENDS Naturals, Integers, Sequences, FiniteSets, TLC

VARIABLES
    pc,        \* position of the driver (__main__)
    now,       \* the process clock, in ticks
    page,      \* what requests.get answered for NEWS_URL in this run
    rss_url,   \* outcome of get_rss_feed_url in this run
    feed,      \* what feedparser.parse answered for the feed URL in this run
    articles,  \* outcome of parse_rss_feed in this run
    io,        \* which file operations of this run fail
    news,      \* the files of OUTPUT_DIR: file name -> content
    readme,    \* README.md
    stdout,    \* the lines printed by this run
    exit_code, \* the process exit status of this run
    lastRun    \* what the previous run was given and did

vars == <<pc, now, page, rss_url, feed, articles, io, news, readme, stdout,
          exit_code, lastRun>>

----------------------------------------------------------------------------
(* Bounds of the model *)

MaxBody == 4

MaxFeed == 22

MaxTitle == 5

MaxTime == 3

----------------------------------------------------------------------------
(* Configuration *)

\* line 11: the default of the NEWS_URL environment variable
NEWS_URL ==
    <<"https://news.google.com/topics/CAAqJggKIiBDQkFTRWdvSUwyMHZNRGx1YlY4U0FtVnVHZ0pWVXlnQVAB?ceid=US:en&oc=3">>

OUTPUT_DIR == "news"

MAX_ARTICLES == 20

TOP_ARTICLES == 5

EXCERPT_LEN == 150

----------------------------------------------------------------------------
(* Text *)

DQ == "\""

SQ == "'"

Quotes == {DQ, SQ}

PFX == "https://news.google.com/rss/topics/"

RSS_TYPE == <<"application/rss+xml">>

Min(a, b) == IF a <= b THEN a ELSE b

SeqsUpTo(S, n) == UNION {[1..k -> S] : k \in 0..n}

\* s[i..j] in Python's sense of a slice s[i-1:j], empty when out of range
Slice(s, i, j) == IF i > j THEN <<>> ELSE SubSeq(s, i, Min(j, Len(s)))

\* sub occurs in s at position i
OccursAt(s, sub, i) ==
    /\ i >= 1
    /\ i + Len(sub) - 1 <= Len(s)
    /\ \A k \in 1..Len(sub) : s[i + k - 1] = sub[k]

\* Python's  sub in s
Contains(s, sub) == \E i \in 1..(Len(s) + 1) : OccursAt(s, sub, i)

\* Python's  s.find(sub, from) , 0 for "not found"
RECURSIVE Find(_, _, _)
Find(s, sub, from) ==
    IF from + Len(sub) - 1 > Len(s) THEN 0
    ELSE IF OccursAt(s, sub, from) THEN from
    ELSE Find(s, sub, from + 1)

\* Python's  s.split(sep)  for a non-empty sep: the parts between the
\* successive non-overlapping occurrences of sep, scanned left to right
RECURSIVE SplitFrom(_, _, _)
SplitFrom(s, sep, from) ==
    LET i == Find(s, sep, from)
    IN  IF i = 0 THEN <<Slice(s, from, Len(s))>>
        ELSE <<Slice(s, from, i - 1)>> \o SplitFrom(s, sep, i + Len(sep))

Split(s, sep) == SplitFrom(s, sep, 1)

----------------------------------------------------------------------------
(* HTML: a body is a sequence of nodes, a link element or a text token *)

NoAttrs == {}

Attr(name, value) == <<name, value>>

HasAttr(el, name) == \E a \in el.attrs : a[1] = name

GetAttr(el, name) == (CHOOSE a \in el.attrs : a[1] = name)[2]

LinkEl(attrs) == [tag |-> "link", attrs |-> attrs, text |-> ""]

TextNode(tok) == [tag |-> "#text", attrs |-> NoAttrs, text |-> tok]

\* the characters of an attribute as they stand in the page
AttrText(el, name) ==
    IF HasAttr(el, name)
    THEN <<" ", name, "=", DQ>> \o GetAttr(el, name) \o <<DQ>>
    ELSE <<>>

\* response.text of one node
NodeText(el) ==
    IF el.tag = "#text" THEN <<el.text>>
    ELSE <<"<link">> \o AttrText(el, "type") \o AttrText(el, "href") \o <<">">>

\* response.text of a body
RECURSIVE BodyText(_)
BodyText(body) ==
    IF body = <<>> THEN <<>>
    ELSE NodeText(Head(body)) \o BodyText(Tail(body))

----------------------------------------------------------------------------
(* Python values and outcomes *)

NoneStr == [none |-> TRUE, s |-> <<>>]

Str(s) == [none |-> FALSE, s |-> s]

\* Python's truth value of an optional string:  not None  and not empty
Truthy(v) == ~v.none /\ v.s # <<>>

\* a call either returns a value or raises; out is what it printed
Return(v, out) == [raised |-> FALSE, val |-> v, out |-> out]

\* v is the placeholder a raising call leaves where its value would be
Raise(v, out) == [raised |-> TRUE, val |-> v, out |-> out]

----------------------------------------------------------------------------
(* requests.get(topic_url, headers=headers, timeout=30) *)

NetworkError == [error |-> TRUE, status |-> 0, body |-> <<>>]

Response(status, body) == [error |-> FALSE, status |-> status, body |-> body]

\* response.raise_for_status() raises for a 4xx or 5xx status
raise_for_status(response) == response.status >= 400 /\ response.status < 600

----------------------------------------------------------------------------
(* get_rss_feed_url *)

\* a find that does not look at the type attribute
RECURSIVE soup_find_any_link(_, _)
soup_find_any_link(body, i) ==
    IF i > Len(body) THEN 0
    ELSE IF body[i].tag = "link" THEN i
    ELSE soup_find_any_link(body, i + 1)

\* soup.find('link', {'type': 'application/rss+xml'}): the index of the first
\* link element of that type in document order, 0 for None
RECURSIVE soup_find(_, _)
soup_find(body, i) ==
    IF i > Len(body) THEN 0
    ELSE IF /\ body[i].tag = "link"
            /\ HasAttr(body[i], "type")
            /\ GetAttr(body[i], "type") = RSS_TYPE
         THEN i
    ELSE soup_find(body, i + 1)

\* a run that only a double quote ends
RECURSIVE run_end_double_quote(_, _)
run_end_double_quote(text, j) ==
    IF j + 1 <= Len(text) /\ text[j + 1] # DQ
    THEN run_end_double_quote(text, j + 1)
    ELSE j

\* the end of the longest run of [^'"] that starts at text[j]
RECURSIVE run_end(_, _)
run_end(text, j) ==
    IF j + 1 <= Len(text) /\ text[j + 1] \notin Quotes
    THEN run_end(text, j + 1)
    ELSE j

\* the pattern  https://news\.google\.com/rss/topics/[^'"]+  matches at i
matches_at(text, i) ==
    /\ text[i] = PFX
    /\ i + 1 <= Len(text)
    /\ text[i + 1] \notin Quotes

\* re.search(pattern, text): the leftmost match, greedy; None when no match
RECURSIVE re_search(_, _)
re_search(text, i) ==
    IF i > Len(text) THEN NoneStr
    ELSE IF matches_at(text, i) THEN Str(SubSeq(text, i, run_end(text, i + 1)))
    ELSE re_search(text, i + 1)

\* lines 18-32: the body of the try statement
get_rss_feed_url_try(response) ==
    IF response.error THEN Raise(NoneStr, <<>>)
    ELSE IF raise_for_status(response) THEN Raise(NoneStr, <<>>)
    ELSE LET rss_link == soup_find(response.body, 1)
         IN  IF rss_link # 0
             THEN IF HasAttr(response.body[rss_link], "href")
                  THEN Return(Str(GetAttr(response.body[rss_link], "href")), <<>>)
                  ELSE Raise(NoneStr, <<>>)
             ELSE Return(re_search(BodyText(response.body), 1), <<>>)

\* no except clause: what the try statement raises reaches the caller
get_rss_feed_url_uncaught(r) == r

\* lines 33-35: the except clause
get_rss_feed_url_except(r) ==
    IF r.raised THEN Return(NoneStr, r.out \o <<"Error getting RSS URL">>)
    ELSE r

get_rss_feed_url(response) ==
    get_rss_feed_url_except(get_rss_feed_url_try(response))

----------------------------------------------------------------------------
(* feedparser.parse(rss_url): entries are dictionaries, a missing field is a
   missing key *)

Has(d, k) == k \in DOMAIN d

Without(d, k) == [x \in (DOMAIN d) \ {k} |-> d[x]]

FeedOf(entries) == [raises |-> FALSE, entries |-> entries]

FeedRaises == [raises |-> TRUE, entries |-> <<>>]

----------------------------------------------------------------------------
(* parse_rss_feed *)

SEP == <<" ", "-", " ">>

\* line 45: entry.get('source', {}).get('title', '') if 'source' in entry else ''
source_title(entry) ==
    IF Has(entry, "source")
    THEN IF Has(entry.source, "title") THEN entry.source.title ELSE <<>>
    ELSE <<>>

\* a cleanup that splits at the hyphen alone
clean_source_hyphen(source) ==
    IF Contains(source, SEP) THEN Split(source, <<"-">>)[1] ELSE source

\* lines 46-47
clean_source(source) ==
    IF Contains(source, SEP) THEN Split(source, SEP)[1] ELSE source

\* lines 49-55, for an entry that has title and link
make_article(entry) ==
    [title |-> entry.title,
     link |-> entry.link,
     published |-> IF Has(entry, "published") THEN entry.published ELSE <<>>,
     source |-> clean_source(source_title(entry)),
     summary |-> IF Has(entry, "summary") THEN entry.summary ELSE <<>>]

\* entry.title or entry.link raises AttributeError
lacks_required(entry) == ~Has(entry, "title") \/ ~Has(entry, "link")

\* a slice that is one entry too long
first_entries_one_more(entries) == Slice(entries, 1, MAX_ARTICLES + 1)

\* line 43: feed.entries[:MAX_ARTICLES]
first_entries(entries) == Slice(entries, 1, MAX_ARTICLES)

\* lines 43-56: the loop, from entry i on, with the articles appended so far
RECURSIVE parse_loop(_, _, _)
parse_loop(entries, i, acc) ==
    IF i > Len(entries) THEN Return(acc, <<>>)
    ELSE IF lacks_required(entries[i]) THEN Raise(acc, <<>>)
    ELSE parse_loop(entries, i + 1, Append(acc, make_article(entries[i])))

\* lines 40-58: the body of the try statement
parse_rss_feed_try(f) ==
    IF f.raises THEN Raise(<<>>, <<>>)
    ELSE parse_loop(first_entries(f.entries), 1, <<>>)

\* an except clause that returns the articles built so far
parse_rss_feed_partial(r) ==
    IF r.raised THEN Return(r.val, r.out \o <<"Error parsing RSS feed">>)
    ELSE r

\* lines 59-61: the except clause
parse_rss_feed_except(r) ==
    IF r.raised THEN Return(<<>>, r.out \o <<"Error parsing RSS feed">>)
    ELSE r

parse_rss_feed(f) == parse_rss_feed_except(parse_rss_feed_try(f))

----------------------------------------------------------------------------
(* The clock and the files *)

\* line 72: the Asia/Shanghai calendar day of the instant t, as strftime
\* prints it; a day has two ticks
date_str(t) == t \div 2

\* line 95: the process clock as strftime prints it, to the second
stamp(t) == t

\* line 75: the file's name inside OUTPUT_DIR
snapshot_name(date) == <<"google-news-", date, ".json">>

\* os.path.join(OUTPUT_DIR, file)
path_join(dir, name) == <<dir, "/">> \o name

\* line 109: file.startswith('google-news-') and file.endswith('.json')
is_snapshot_name(name) == name[1] = "google-news-" /\ name[Len(name)] = ".json"

\* line 110: file[12:-5]
name_date(name) == name[2]

\* lines 77-81: the document json.dump writes
Snapshot(date, arts) ==
    [valid |-> TRUE, date |-> date, source_url |-> NEWS_URL, articles |-> arts]

\* a file opened with 'w' whose write did not complete: no JSON document
Truncated == [valid |-> FALSE, date |-> 0, source_url |-> <<>>, articles |-> <<>>]

\* open(name, 'a') and a write: the articles are added to those the file holds
WriteFileAppend(dir, name, content) ==
    [n \in (DOMAIN dir) \cup {name} |->
        IF n # name THEN dir[n]
        ELSE IF name \in DOMAIN dir
        THEN [content EXCEPT !.articles = dir[name].articles \o content.articles]
        ELSE content]

\* open(name, 'w') and a write: the file of that name is created or replaced
WriteFile(dir, name, content) ==
    [n \in (DOMAIN dir) \cup {name} |-> IF n = name THEN content ELSE dir[n]]

EmptyDir == [n \in {} |-> Truncated]

\* sorted(names, reverse=True): the names all start alike, the date decides
RECURSIVE sorted_reverse(_)
sorted_reverse(names) ==
    IF names = {} THEN <<>>
    ELSE LET m == CHOOSE n \in names : \A o \in names : name_date(o) <= name_date(n)
         IN  <<m>> \o sorted_reverse(names \ {m})

NoReadme ==
    [state |-> "absent", stamp |-> 0, date |-> 0, top |-> <<>>,
     all |-> <<>>, table |-> <<>>]

TruncatedReadme == [NoReadme EXCEPT !.state = "truncated"]

----------------------------------------------------------------------------
(* update_readme *)

\* lines 99-100: one entry of the top block
top_item(i, article) ==
    [i |-> i, title |-> article.title, link |-> article.link,
     source |-> article.source,
     excerpt |-> Slice(article.summary, 1, EXCERPT_LEN) \o <<"...">>]

\* lines 98-100: enumerate(articles[:5], 1)
top_block(arts) ==
    [i \in 1..Min(Len(arts), TOP_ARTICLES) |-> top_item(i, arts[i])]

\* lines 110-112: one row of the table of snapshots
table_row(dir, name) ==
    [date |-> name_date(name), count |-> Len(dir[name].articles),
     view |-> path_join(OUTPUT_DIR, name)]

\* lines 93-115: the body of the try statement; val is README.md afterwards
update_readme_try(arts, date, dir, old, t, fail) ==
    LET snaps == SelectSeq(sorted_reverse(DOMAIN dir), is_snapshot_name)
        content ==
            [state |-> "written", stamp |-> stamp(t), date |-> date,
             top |-> top_block(arts),
             all |-> path_join(OUTPUT_DIR, snapshot_name(date)),
             table |-> [i \in 1..Len(snaps) |-> table_row(dir, snaps[i])]]
    IN  IF fail = "load" \/ \E i \in 1..Len(snaps) : ~dir[snaps[i]].valid
        THEN Raise(old, <<>>)
        ELSE IF fail = "readme_open" THEN Raise(old, <<>>)
        ELSE IF fail = "readme_write" THEN Raise(TruncatedReadme, <<>>)
        ELSE Return(content, <<>>)

\* no except clause: what the try statement raises reaches save_news_data
update_readme_uncaught(r) == r

\* lines 116-117: the except clause
update_readme_except(r) ==
    IF r.raised THEN Return(r.val, r.out \o <<"Error updating README">>)
    ELSE r

update_readme(arts, date, dir, old, t, fail) ==
    update_readme_except(update_readme_try(arts, date, dir, old, t, fail))

----------------------------------------------------------------------------
(* save_news_data *)

Files(dir, rd) == [news |-> dir, readme |-> rd]

\* lines 66-86: the body of the try statement; val is the files afterwards
save_news_data_try(arts, dir, old, t, fail) ==
    LET date == date_str(t)
        name == snapshot_name(date)
        written == WriteFile(dir, name, Snapshot(date, arts))
    IN  IF fail \in {"mkdir", "json_open"} THEN Raise(Files(dir, old), <<>>)
        ELSE IF fail = "json_dump"
        THEN Raise(Files(WriteFile(dir, name, Truncated), old), <<>>)
        ELSE LET r == update_readme(arts, date, written, old, t, fail)
             IN  IF r.raised THEN Raise(Files(written, r.val), r.out)
                 ELSE Return(Files(written, r.val),
                             r.out \o <<"Successfully saved">>)

\* no except clause: what the try statement raises reaches the driver
save_news_data_uncaught(r) == r

\* lines 87-88: the except clause
save_news_data_except(r) ==
    IF r.raised THEN Return(r.val, r.out \o <<"Error saving news data">>)
    ELSE r

save_news_data(arts, dir, old, t, fail) ==
    save_news_data_except(save_news_data_try(arts, dir, old, t, fail))

----------------------------------------------------------------------------
(* Inputs: the pages requests.get may answer *)

FEED_ABC == <<PFX, "ABC123">>

FEED_XYZ == <<PFX, "XYZ">>

RssLink(href) == LinkEl({Attr("type", RSS_TYPE), Attr("href", href)})

Nodes ==
    {RssLink(FEED_ABC), RssLink(FEED_XYZ), RssLink(<<>>),
     LinkEl({Attr("type", RSS_TYPE)}),
     LinkEl({Attr("href", FEED_XYZ)}),
     LinkEl({Attr("type", <<"text/css">>), Attr("href", <<"style.css">>)}),
     TextNode(PFX), TextNode("ABC123"), TextNode(DQ), TextNode(SQ)}

Bodies(n) == SeqsUpTo(Nodes, n)

AllPages ==
    {NetworkError}
        \cup {Response(200, b) : b \in Bodies(MaxBody)}
        \cup {Response(st, b) : st \in {404, 503}, b \in Bodies(1)}

DriverPages ==
    {NetworkError,
     Response(404, <<RssLink(FEED_ABC)>>),
     Response(200, <<RssLink(FEED_ABC)>>),
     Response(200, <<TextNode(DQ), TextNode(PFX), TextNode("XYZ"), TextNode(DQ)>>),
     Response(200, <<RssLink(<<>>)>>),
     Response(200, <<TextNode("ABC123")>>)}

----------------------------------------------------------------------------
(* Inputs: the feeds feedparser.parse may answer *)

REUTERS == <<"Reuters", " ", "-", " ", "Asia", " ", "Edition">>

LongSummary == [i \in 1..(EXCERPT_LEN + 1) |-> "x"]

\* the i-th entry of a feed: links differ, titles repeat
BaseEntry(i) ==
    [title |-> <<"headline", i % 3>>,
     link |-> <<"https://example.org/", i>>,
     published |-> <<"Thu, 05 Nov 2026">>,
     summary |-> IF i = 2 THEN LongSummary ELSE <<"<a>", "text", i>>,
     source |-> [title |-> IF i % 2 = 0 THEN REUTERS ELSE <<"AP">>]]

Variants ==
    {"none", "no_title", "no_link", "no_published", "no_summary", "no_source",
     "source_no_title", "dup"}

Vary(e, prev, v) ==
    CASE v = "none" -> e
      [] v = "no_title" -> Without(e, "title")
      [] v = "no_link" -> Without(e, "link")
      [] v = "no_published" -> Without(e, "published")
      [] v = "no_summary" -> Without(e, "summary")
      [] v = "no_source" -> Without(e, "source")
      [] v = "source_no_title" -> [e EXCEPT !.source = [x \in {} |-> <<>>]]
      [] v = "dup" -> prev

\* n entries, the k-th varied
Entries(n, k, v) ==
    [i \in 1..n |-> IF i = k THEN Vary(BaseEntry(i), BaseEntry(i - 1), v)
                    ELSE BaseEntry(i)]

LongFeeds ==
    {FeedOf(Entries(n, k, v)) : n \in 0..MaxFeed, k \in 1..MaxFeed, v \in Variants}

SourceTitles == SeqsUpTo({"Reuters", " ", "-"}, MaxTitle) \cup {REUTERS}

TitledFeeds ==
    {FeedOf(<<[BaseEntry(1) EXCEPT !.source = [title |-> t]]>>) : t \in SourceTitles}

AllFeeds == LongFeeds \cup TitledFeeds \cup {FeedRaises}

DriverFeeds ==
    {FeedOf(<<>>), FeedOf(Entries(1, 1, "none")),
     FeedOf(Entries(TOP_ARTICLES + 1, 1, "none")),
     FeedOf(Entries(2, 2, "no_title")), FeedRaises}

\* the file operation of a run that fails, if one does
Fails ==
    {"none", "mkdir", "json_open", "json_dump", "load", "readme_open",
     "readme_write"}

----------------------------------------------------------------------------
(* The driver, lines 119-141 *)

NotRun == -1

\* line 125: if not rss_url
not_rss_url(r) == ~Truthy(r.val)

\* a driver that saves whatever the normalizer returned
not_articles_skipped(r) == FALSE

\* line 133: if not articles
not_articles(r) == r.val = <<>>

NoLastRun ==
    [valid |-> FALSE, date |-> 0, feed |-> FeedRaises, fail |-> "none",
     repeated |-> FALSE]

Init ==
    /\ pc = "start"
    /\ now = 0
    /\ page = NetworkError
    /\ rss_url = Return(NoneStr, <<>>)
    /\ feed = FeedRaises
    /\ articles = Return(<<>>, <<>>)
    /\ io = "none"
    /\ news = EmptyDir
    /\ readme = NoReadme
    /\ stdout = <<>>
    /\ exit_code = NotRun
    /\ lastRun = NoLastRun

\* lines 120-129
Resolve(pages) ==
    /\ pc = "start"
    /\ \E p \in pages :
         LET r == get_rss_feed_url(p)
             head == <<"Starting Google News scraper...", "Target URL">> \o r.out
         IN  /\ page' = p
             /\ rss_url' = r
             /\ IF r.raised
                THEN /\ pc' = "exit"
                     /\ exit_code' = 1
                     /\ stdout' = head \o <<"Traceback">>
                ELSE IF not_rss_url(r)
                THEN /\ pc' = "exit"
                     /\ exit_code' = 1
                     /\ stdout' = head \o <<"Failed to find RSS feed URL">>
                ELSE /\ pc' = "parse"
                     /\ exit_code' = exit_code
                     /\ stdout' = head \o <<"Found RSS feed">>
    /\ UNCHANGED <<now, feed, articles, io, news, readme, lastRun>>

\* lines 131-137
Parse(feeds) ==
    /\ pc = "parse"
    /\ \E f \in feeds :
         LET r == parse_rss_feed(f)
         IN  /\ feed' = f
             /\ articles' = r
             /\ IF r.raised
                THEN /\ pc' = "exit"
                     /\ exit_code' = 1
                     /\ stdout' = stdout \o r.out \o <<"Traceback">>
                ELSE IF not_articles(r)
                THEN /\ pc' = "exit"
                     /\ exit_code' = 1
                     /\ stdout' = stdout \o r.out \o <<"No articles found in RSS feed">>
                ELSE /\ pc' = "save"
                     /\ exit_code' = exit_code
                     /\ stdout' = stdout \o r.out \o <<"Found articles">>
    /\ UNCHANGED <<now, page, rss_url, io, news, readme, lastRun>>

\* the write of the day's snapshot completed
snapshot_written(fail) == fail \notin {"mkdir", "json_open", "json_dump"}

\* lines 139-141
Save ==
    /\ pc = "save"
    /\ \E fail \in Fails :
         LET r == save_news_data(articles.val, news, readme, now, fail)
         IN  /\ io' = fail
             /\ news' = r.val.news
             /\ readme' = r.val.readme
             /\ IF r.raised
                THEN /\ exit_code' = 1
                     /\ stdout' = stdout \o r.out \o <<"Traceback">>
                ELSE /\ exit_code' = 0
                     /\ stdout' = stdout \o r.out \o <<"Scraping completed successfully">>
             /\ lastRun' =
                  [valid |-> TRUE, date |-> date_str(now), feed |-> feed,
                   fail |-> fail,
                   repeated |-> /\ lastRun.valid
                                /\ lastRun.date = date_str(now)
                                /\ lastRun.feed = feed
                                /\ lastRun.fail = "none"
                                /\ fail = "none"]
    /\ pc' = "exit"
    /\ UNCHANGED <<now, page, rss_url, feed, articles>>

\* the scheduler starts the job again, later
NextRun ==
    /\ pc = "exit"
    /\ \E t \in (now + 1)..MaxTime : now' = t
    /\ pc' = "start"
    /\ page' = NetworkError
    /\ rss_url' = Return(NoneStr, <<>>)
    /\ feed' = FeedRaises
    /\ articles' = Return(<<>>, <<>>)
    /\ io' = "none"
    /\ stdout' = <<>>
    /\ exit_code' = NotRun
    /\ UNCHANGED <<news, readme, lastRun>>

MainResolve == Resolve(DriverPages)

MainParse == Parse(DriverFeeds)

Next == MainResolve \/ MainParse \/ Save \/ NextRun

Spec == Init /\ [][Next]_vars

\* the resolver alone, on every page within the bound
ResolveAny == Resolve(AllPages)

SpecResolve == Init /\ [][ResolveAny]_vars

\* the normalizer alone, on every feed within the bound, from the state the
\* driver is in once the resolver has found an endpoint
InitParse ==
    /\ pc = "parse"
    /\ now = 0
    /\ page = Response(200, <<RssLink(FEED_ABC)>>)
    /\ rss_url = get_rss_feed_url(page)
    /\ feed = FeedRaises
    /\ articles = Return(<<>>, <<>>)
    /\ io = "none"
    /\ news = EmptyDir
    /\ readme = NoReadme
    /\ stdout = <<"Starting Google News scraper...", "Target URL", "Found RSS feed">>
    /\ exit_code = NotRun
    /\ lastRun = NoLastRun

ParseAny == Parse(AllFeeds)

SpecParse == InitParse /\ [][ParseAny]_vars

----------------------------------------------------------------------------
(* Properties of the resolver, checked under SpecResolve *)

Resolved == pc # "start"

Fetched == ~page.error /\ ~raise_for_status(page)

IsRssLink(node) ==
    node.tag = "link" /\ Attr("type", RSS_TYPE) \in node.attrs

\* the place of the first link element of type application/rss+xml
IsFirstRssLink(body, i) ==
    /\ i \in 1..Len(body)
    /\ IsRssLink(body[i])
    /\ \A j \in 1..(i - 1) : ~IsRssLink(body[j])

NoRssLink(body) == \A i \in 1..Len(body) : ~IsRssLink(body[i])

\* a match of the fallback pattern starts at text[i]
PatternStarts(text, i) ==
    i + 1 <= Len(text) /\ text[i] = PFX /\ text[i + 1] \notin Quotes

\* C1 as stated: for every successfully fetched body that contains a link
\* element of type application/rss+xml with href X, get_rss_feed_url
\* returns exactly X, whatever else the body contains.
C1_EveryRssLinkHref ==
    (Resolved /\ Fetched) =>
        \A i \in 1..Len(page.body) :
            (IsRssLink(page.body[i]) /\ HasAttr(page.body[i], "href")) =>
                rss_url = Return(Str(GetAttr(page.body[i], "href")), <<>>)

\* C1 amended: get_rss_feed_url returns the href of the first link element
\* of type application/rss+xml in document order when that element has an
\* href, and None when it has none, whatever else the body contains (other
\* link elements, text that matches the fallback pattern).
C1_FirstRssLinkHref ==
    (Resolved /\ Fetched) =>
        \A i \in 1..Len(page.body) :
            IsFirstRssLink(page.body, i) =>
                /\ ~rss_url.raised
                /\ rss_url.val =
                     IF HasAttr(page.body[i], "href")
                     THEN Str(GetAttr(page.body[i], "href"))
                     ELSE NoneStr

C1_Witness ==
    /\ pc = "parse"
    /\ page = Response(200, <<LinkEl({Attr("href", FEED_XYZ)}), TextNode(DQ),
                              RssLink(FEED_ABC), RssLink(FEED_XYZ)>>)
    /\ rss_url.val = Str(FEED_ABC)

\* C2 as stated: for every successfully fetched body without a link element
\* of type application/rss+xml that contains the prefix, ABC123 and a quote
\* character in a row, get_rss_feed_url returns exactly the prefix and ABC123.
C2_LiteralReturned ==
    (/\ Resolved
     /\ Fetched
     /\ NoRssLink(page.body)
     /\ \E q \in Quotes : Contains(BodyText(page.body), FEED_ABC \o <<q>>))
        => rss_url = Return(Str(FEED_ABC), <<>>)

\* C2 amended: for such a body get_rss_feed_url returns the leftmost match
\* of the pattern; that is exactly the prefix and ABC123, the quote excluded,
\* when no match of the pattern starts before that occurrence in the text.
C2_LeftmostMatch ==
    (Resolved /\ Fetched /\ NoRssLink(page.body)) =>
        LET text == BodyText(page.body)
        IN  \A i \in 1..Len(text) :
                (/\ \E q \in Quotes : OccursAt(text, FEED_ABC \o <<q>>, i)
                 /\ \A j \in 1..(i - 1) : ~PatternStarts(text, j))
                    => rss_url = Return(Str(FEED_ABC), <<>>)

C2_Witness ==
    /\ pc = "parse"
    /\ page = Response(200, <<TextNode(PFX), TextNode(DQ), TextNode(PFX),
                              TextNode("ABC123")>>)
         \/ page = Response(200, <<LinkEl({Attr("type", <<"text/css">>),
                                           Attr("href", <<"style.css">>)}),
                                   TextNode(PFX), TextNode("ABC123"), TextNode(SQ)>>)
    /\ rss_url.val = Str(FEED_ABC)

\* C3: get_rss_feed_url never raises to its caller, and it returns None on a
\* network error, on a non-success status, on an exception while the body is
\* examined (the first RSS link element has no href), and on a body with
\* neither an RSS link element nor a match of the pattern.
C3_NeverRaises ==
    Resolved =>
        /\ ~rss_url.raised
        /\ (\/ page.error
            \/ raise_for_status(page)
            \/ \E i \in 1..Len(page.body) :
                   IsFirstRssLink(page.body, i) /\ ~HasAttr(page.body[i], "href")
            \/ /\ NoRssLink(page.body)
               /\ \A i \in 1..Len(BodyText(page.body)) :
                      ~PatternStarts(BodyText(page.body), i))
               => (rss_url.val = NoneStr /\ pc = "exit" /\ exit_code = 1)

C3_Witness ==
    /\ pc = "exit"
    /\ page = Response(200, <<LinkEl({Attr("type", RSS_TYPE)}), RssLink(FEED_ABC)>>)
    /\ rss_url = Return(NoneStr, <<"Error getting RSS URL">>)

----------------------------------------------------------------------------
(* Properties of the normalizer, checked under SpecParse *)

Parsed == pc # "parse"

\* the entries the cap lets through
Capped(f) == Min(Len(f.entries), MAX_ARTICLES)

Complete(entry) == Has(entry, "title") /\ Has(entry, "link")

\* the place where the separator first occurs in a title
IsFirstSep(title, k) ==
    OccursAt(title, SEP, k) /\ \A j \in 1..(k - 1) : ~OccursAt(title, SEP, j)

\* C4: for a feed of N entries that all have title and link, parse_rss_feed
\* returns exactly min(N, MAX_ARTICLES) records, the i-th built from the i-th
\* entry of the feed; the number of records is never above the cap.
C4_CappedInOrder ==
    Parsed =>
        /\ Len(articles.val) <= MAX_ARTICLES
        /\ (~feed.raises /\ \A i \in 1..Len(feed.entries) : Complete(feed.entries[i]))
              => /\ Len(articles.val) = Capped(feed)
                 /\ \A i \in 1..Capped(feed) :
                        /\ articles.val[i].title = feed.entries[i].title
                        /\ articles.val[i].link = feed.entries[i].link

C4_Witness ==
    /\ pc = "save"
    /\ Len(feed.entries) > MAX_ARTICLES
    /\ Len(articles.val) = MAX_ARTICLES
    /\ feed.entries[4] = feed.entries[3]
    /\ articles.val[4].link = feed.entries[3].link
    /\ articles.val[MAX_ARTICLES].link = <<"https://example.org/", MAX_ARTICLES>>

\* C5: the normalized source is the text before the first " - " of the
\* entry's source title when the title contains one ("Reuters - Asia Edition"
\* gives "Reuters"), the title unchanged when it contains none, and the empty
\* string when the entry has no source or the source has no title.
C5_SourceCleaned ==
    Parsed =>
        \A i \in 1..Len(articles.val) :
            LET entry == feed.entries[i]
                source == articles.val[i].source
            IN  IF ~Has(entry, "source") THEN source = <<>>
                ELSE IF ~Has(entry.source, "title") THEN source = <<>>
                ELSE LET title == entry.source.title
                     IN  /\ \A k \in 1..Len(title) :
                                IsFirstSep(title, k) => source = SubSeq(title, 1, k - 1)
                         /\ ~Contains(title, SEP) => source = title
                         /\ title = REUTERS => source = <<"Reuters">>

C5_Witness ==
    /\ pc = "save"
    /\ Len(feed.entries) = 1
    /\ Has(feed.entries[1], "source")
    /\ Has(feed.entries[1].source, "title")
    /\ feed.entries[1].source.title = <<"Reuters", " ", "-", " ", "-">>
    /\ articles.val[1].source = <<"Reuters">>

\* C6: if one of the first MAX_ARTICLES entries has no title or no link,
\* parse_rss_feed returns the empty sequence, never the records built before
\* that entry, and it never raises; an entry without published or summary
\* gets the empty string there and does not invalidate the batch.
C6_AllOrNothing ==
    Parsed =>
        /\ ~articles.raised
        /\ (\E i \in 1..Capped(feed) : ~Complete(feed.entries[i]))
              => (articles.val = <<>> /\ pc = "exit" /\ exit_code = 1)
        /\ feed.raises => articles.val = <<>>
        /\ (~feed.raises /\ \A i \in 1..Capped(feed) : Complete(feed.entries[i]))
              => /\ Len(articles.val) = Capped(feed)
                 /\ \A i \in 1..Capped(feed) :
                        /\ articles.val[i].published =
                             IF Has(feed.entries[i], "published")
                             THEN feed.entries[i].published ELSE <<>>
                        /\ articles.val[i].summary =
                             IF Has(feed.entries[i], "summary")
                             THEN feed.entries[i].summary ELSE <<>>

C6_Witness ==
    /\ pc = "exit"
    /\ Len(feed.entries) > MAX_ARTICLES
    /\ \A i \in 1..(MAX_ARTICLES - 1) : Complete(feed.entries[i])
    /\ ~Has(feed.entries[MAX_ARTICLES], "link")
    /\ articles = Return(<<>>, <<"Error parsing RSS feed">>)

----------------------------------------------------------------------------
(* Properties of a run and of successive runs, checked under Spec *)

Today == date_str(now)

FilesOfDay(dir, date) ==
    {n \in DOMAIN dir : is_snapshot_name(n) /\ name_date(n) = date}

\* C7: a run in which the resolver found no endpoint or the normalizer
\* returned no article ends with a non-zero exit code and leaves the
\* snapshots and README.md as they were; the persistence step is entered only
\* from the normalizer's step with at least one article, and that step only
\* from the resolver's step with an endpoint.
C7_NoSaveWithoutArticles ==
    [][/\ pc' = "parse" => (pc = "start" /\ Truthy(rss_url'.val))
       /\ pc' = "save" =>
            (pc = "parse" /\ Truthy(rss_url'.val) /\ articles'.val # <<>>)
       /\ (news' # news \/ readme' # readme) =>
            (pc = "save" /\ Truthy(rss_url.val) /\ articles.val # <<>>)
       /\ (pc' = "exit" /\ (~Truthy(rss_url'.val) \/ articles'.val = <<>>)) =>
            (exit_code' # 0 /\ news' = news /\ readme' = readme)]_vars

C7_Witness ==
    /\ pc = "exit"
    /\ exit_code = 1
    /\ Truthy(rss_url.val)
    /\ feed = FeedOf(<<>>)
    /\ articles.val = <<>>
    /\ FilesOfDay(news, Today) # {}
    /\ readme.state = "written"

\* C8: a run on the same Asia/Shanghai day and with the same feed as the
\* run that last saved, both having written the day's snapshot, leaves every
\* snapshot as it was: one file for the day, holding what the first run
\* wrote, the other days' files untouched; when both runs also regenerated
\* README.md, its top block is the same after both.
C8_SameDayIdempotent ==
    [][(/\ pc = "save"
        /\ pc' = "exit"
        /\ lastRun.valid
        /\ lastRun.date = Today
        /\ lastRun.feed = feed
        /\ snapshot_written(lastRun.fail)
        /\ snapshot_written(io')) =>
            /\ news' = news
            /\ FilesOfDay(news', Today) = {snapshot_name(Today)}
            /\ news'[snapshot_name(Today)] = Snapshot(Today, articles.val)
            /\ (lastRun.fail = "none" /\ io' = "none" /\ readme'.state = "written")
                  => (readme.state = "written" /\ readme'.top = readme.top)]_vars

C8_Witness ==
    /\ pc = "exit"
    /\ lastRun.repeated
    /\ Cardinality(DOMAIN news) = 2
    /\ \A n \in DOMAIN news : news[n].valid
    /\ Len(news[snapshot_name(Today)].articles) > TOP_ARTICLES
    /\ readme.state = "written"
    /\ Len(readme.top) = TOP_ARTICLES

\* the run reached the persistence step and has ended
Saved == pc = "exit" /\ Truthy(rss_url.val) /\ articles.val # <<>>

\* README.md could not be regenerated in a run that wrote its snapshot
ReadmeFailed ==
    \/ io \in {"load", "readme_open", "readme_write"}
    \/ snapshot_written(io) /\ \E n \in DOMAIN news : ~news[n].valid

Printed(line) == \E i \in 1..Len(stdout) : stdout[i] = line

\* C9: a failure while README.md is regenerated (an older snapshot that
\* cannot be loaded, README.md that cannot be opened or written) is caught
\* inside update_readme: the snapshot the run wrote stays as written, and
\* save_news_data and the driver go on as after a success.
C9_ReadmeFailureContained ==
    (Saved /\ ReadmeFailed) =>
        /\ Today = lastRun.date
        /\ snapshot_name(Today) \in DOMAIN news
        /\ news[snapshot_name(Today)] = Snapshot(Today, articles.val)
        /\ Printed("Error updating README")
        /\ Printed("Successfully saved")
        /\ ~Printed("Error saving news data")
        /\ ~Printed("Traceback")
        /\ exit_code = 0

C9_Witness ==
    /\ Saved
    /\ io = "none"
    /\ \E n \in DOMAIN news : ~news[n].valid /\ name_date(n) < Today
    /\ news[snapshot_name(Today)] = Snapshot(Today, articles.val)
    /\ Printed("Error updating README")
    /\ readme.state = "written"
    /\ readme.date < Today

\* C10: the exit code is 0 exactly when the resolver returned an endpoint and
\* the normalizer at least one article, and 1 otherwise, whatever fails while
\* the files are written; and a run whose snapshot write fails leaves
\* README.md as it was.
C10_ExitCode ==
    [][/\ pc' = "exit" =>
            /\ exit_code' \in {0, 1}
            /\ exit_code' = 0 <=> (Truthy(rss_url'.val) /\ articles'.val # <<>>)
       /\ (pc = "save" /\ pc' = "exit" /\ ~snapshot_written(io')) =>
            /\ readme' = readme
            /\ exit_code' = 0
            /\ Printed("Error saving news data")']_vars

\* exit code 0 and no snapshot of the day
C10_Witness ==
    /\ pc = "exit"
    /\ exit_code = 0
    /\ io \in {"mkdir", "json_open"}
    /\ snapshot_name(Today) \notin DOMAIN news
    /\ Printed("Error saving news data")
    /\ Printed("Scraping completed successfully")

====
